---- MODULE Spec2Model ----
(***************************************************************************)
(* Simple To-Do App: the task model (TaskModel), the storage module        *)
(* (TaskStorage) and the application controller (TodoApp).                 *)
(*                                                                         *)
(* Strings are sequences of one-character strings.  Date strings are       *)
(* records [kind, v]: the empty string, a calendar date "YYYY-MM-DD" (v is  *)
(* the day number), an ISO timestamp (v is the instant) or a string that    *)
(* Date cannot parse.  Instants are clock ticks; a day has TicksPerDay      *)
(* ticks.  A JavaScript number is a record [nan, v].                        *)
(***************************************************************************)
EXTENDS Integers, Sequences, FiniteSets, TLC

VARIABLES
    tasks,           \* TodoApp.tasks: the in-memory collection
    currentFilter,   \* TodoApp.currentFilter
    currentSort,     \* TodoApp.currentSort
    blob,            \* localStorage item 'todo-tasks'
    storageWorks,    \* whether localStorage.setItem succeeds or throws
    now,             \* the wall clock, in ticks
    tagFilterValue,  \* ui.elements.tagFilter.value (the selected option)
    view,            \* the task list last handed to ui.renderTasks
    lastIntent       \* the handler that ran last: how it ended, whether it
                     \* called saveTasks, what it passed to ui.showNotification

vars == <<tasks, currentFilter, currentSort, blob, storageWorks, now,
          tagFilterValue, view, lastIntent>>

----------------------------------------------------------------------------
(* Bounds and program constants *)

MaxTasks == 2

MaxElapsed == 1

MaxCollection == 3

MaxDueDay == 6

TicksPerDay == 2

MaxTextLength == 500

MaxTagsLength == 10

StartTick == TicksPerDay + 1

RandomSuffixes == {"x", "y"}

----------------------------------------------------------------------------
(* Strings *)

EmptyString == <<>>

IsSpace(c) == c = " "

\* c.repeat(n)
Repeat(c, n) == [i \in 1..n |-> c]

RECURSIVE trimStart(_)
trimStart(s) ==
    IF s # <<>> /\ IsSpace(Head(s)) THEN trimStart(Tail(s)) ELSE s

RECURSIVE trimEnd(_)
trimEnd(s) ==
    IF s # <<>> /\ IsSpace(s[Len(s)])
    THEN trimEnd(SubSeq(s, 1, Len(s) - 1))
    ELSE s

trim(s) == trimEnd(trimStart(s))

toLowerCaseChar(c) ==
    CASE c = "A" -> "a"
      [] c = "B" -> "b"
      [] c = "C" -> "c"
      [] OTHER -> c

toLowerCase(s) == [i \in 1..Len(s) |-> toLowerCaseChar(s[i])]

startsWithHash(s) == Len(s) > 0 /\ s[1] = "#"

\* s.split(/\s+/): the pieces between maximal runs of whitespace; a string that
\* starts or ends with whitespace yields an empty first or last piece.
RECURSIVE splitFrom(_, _, _)
splitFrom(s, i, cur) ==
    IF i > Len(s) THEN <<cur>>
    ELSE IF IsSpace(s[i])
         THEN IF i < Len(s) /\ IsSpace(s[i + 1])
              THEN splitFrom(s, i + 1, cur)
              ELSE <<cur>> \o splitFrom(s, i + 1, <<>>)
         ELSE splitFrom(s, i + 1, Append(cur, s[i]))

split(s) == splitFrom(s, 1, <<>>)

\* arr.indexOf(x): the first index holding x (0 when absent; indices from 1)
indexOf(arr, x) ==
    IF \E i \in 1..Len(arr) : arr[i] = x
    THEN CHOOSE i \in 1..Len(arr) :
            arr[i] = x /\ \A j \in 1..(i - 1) : arr[j] # x
    ELSE 0

\* arr.filter((x, index, arr) => arr.indexOf(x) === index), from index i on
RECURSIVE firstOccurrences(_, _)
firstOccurrences(arr, i) ==
    IF i > Len(arr) THEN <<>>
    ELSE (IF indexOf(arr, arr[i]) = i THEN <<arr[i]>> ELSE <<>>)
         \o firstOccurrences(arr, i + 1)

----------------------------------------------------------------------------
(* Dates and numbers *)

NoDate == [kind |-> "empty", v |-> 0]

DateStr(day) == [kind |-> "date", v |-> day]

IsoStr(tick) == [kind |-> "iso", v |-> tick]

BadDate == [kind |-> "invalid", v |-> 0]

Num(n) == [nan |-> FALSE, v |-> n]

NaN == [nan |-> TRUE, v |-> 0]

\* new Date(s).getTime()
dateGetTime(s) ==
    CASE s.kind = "date" -> Num(s.v * TicksPerDay)
      [] s.kind = "iso" -> Num(s.v)
      [] OTHER -> NaN

\* Math.ceil(a / b) for b > 0
ceilDiv(a, b) == -((-a) \div b)

\* a - b on JavaScript numbers
numSub(a, b) == IF a.nan \/ b.nan THEN NaN ELSE Num(a.v - b.v)

\* what Array.prototype.sort makes of a comparator's result: NaN counts as 0
cmpResult(x) == IF x.nan THEN 0 ELSE x.v

\* the truthiness of a date string: only the empty string is falsy
dateTruthy(s) == s.kind # "empty"

\* a < b on JavaScript numbers: false when either is NaN
numLess(a, b) == ~a.nan /\ ~b.nan /\ a.v < b.v

----------------------------------------------------------------------------
(* Double-precision arithmetic, for the numbers whose rounding matters.      *)
(* A positive double is [bits, exp]: Precision bits, the first of them 1,    *)
(* standing for the value 0.b1 b2 ... x 2^exp.  Long bit strings are         *)
(* computed eight bits (a limb) at a time.                                   *)

Precision == 53

LimbBits == 8

LimbBase == 256

\* the limbs a quotient is developed to before it is rounded
QuotientLimbs == 9

\* 2^n for n in 0..8
pow2(n) == <<1, 2, 4, 8, 16, 32, 64, 128, 256>>[n + 1]

\* the first n limbs of the expansion of r / t in base 256, for 0 <= r < t
RECURSIVE quotientLimbs(_, _, _)
quotientLimbs(r, t, n) ==
    IF n = 0 THEN <<>>
    ELSE <<(r * LimbBase) \div t>> \o quotientLimbs((r * LimbBase) % t, t, n - 1)

\* what is left of r / t after the first n limbs of its expansion
RECURSIVE remainderAfter(_, _, _)
remainderAfter(r, t, n) ==
    IF n = 0 THEN r ELSE remainderAfter((r * LimbBase) % t, t, n - 1)

\* the bits the limbs spell, the most significant first
bitsOf(limbs) ==
    [i \in 1..(LimbBits * Len(limbs)) |->
        (limbs[((i - 1) \div LimbBits) + 1]
            \div pow2(LimbBits - 1 - ((i - 1) % LimbBits))) % 2]

\* the limbs that spell the bits (a multiple of eight of them)
limbsOf(bits) ==
    [j \in 1..(Len(bits) \div LimbBits) |->
        LET bit(k) == bits[LimbBits * (j - 1) + k]
        IN bit(1) * 128 + bit(2) * 64 + bit(3) * 32 + bit(4) * 16
           + bit(5) * 8 + bit(6) * 4 + bit(7) * 2 + bit(8)]

\* the number of zero bits a bit string with a 1 in it starts with
leadingZeros(bits) ==
    (CHOOSE i \in 1..Len(bits) :
        bits[i] = 1 /\ \A j \in 1..(i - 1) : bits[j] = 0) - 1

\* the bits plus one unit in the last place, for bits that are not all 1
increment(bits) ==
    LET p == CHOOSE i \in 1..Len(bits) :
                 bits[i] = 0 /\ \A j \in (i + 1)..Len(bits) : bits[j] = 1
    IN [i \in 1..Len(bits) |-> IF i < p THEN bits[i] ELSE IF i = p THEN 1 ELSE 0]

\* round to nearest, ties to even: the exact value has the given bits (at
\* least Precision of them, the first 1) and, beyond them, something more
\* exactly when sticky holds
roundToNearestEven(bits, exp, sticky) ==
    LET kept == SubSeq(bits, 1, Precision)
        roundBit == IF Len(bits) > Precision THEN bits[Precision + 1] ELSE 0
        more == sticky \/ \E i \in (Precision + 2)..Len(bits) : bits[i] = 1
        up == roundBit = 1 /\ (more \/ kept[Precision] = 1)
        allOnes == \A i \in 1..Precision : kept[i] = 1
    IN IF ~up THEN [bits |-> kept, exp |-> exp]
       ELSE IF allOnes
            THEN [bits |-> [i \in 1..Precision |-> IF i = 1 THEN 1 ELSE 0],
                  exp |-> exp + 1]
            ELSE [bits |-> increment(kept), exp |-> exp]

\* a / b on doubles, for integers 0 < a <= b
numDiv(a, b) ==
    IF a = b
    THEN [bits |-> [i \in 1..Precision |-> IF i = 1 THEN 1 ELSE 0], exp |-> 1]
    ELSE LET all == bitsOf(quotientLimbs(a, b, QuotientLimbs))
             z == leadingZeros(all)
         IN roundToNearestEven(SubSeq(all, z + 1, Len(all)), -z,
                               remainderAfter(a, b, QuotientLimbs) # 0)

\* the limbs of the product of a limb string and the small factor k: one limb
\* more than the string has, the first being the carry
RECURSIVE timesLimbs(_, _)
timesLimbs(limbs, k) ==
    IF limbs = <<>> THEN <<0>>
    ELSE LET lower == timesLimbs(Tail(limbs), k)
             v == Head(limbs) * k + lower[1]
         IN <<v \div LimbBase, v % LimbBase>> \o Tail(lower)

\* x * k on doubles, for an integer k in 1..255
numMul(x, k) ==
    LET padded == x.bits \o <<0, 0, 0>>
        all == bitsOf(timesLimbs(limbsOf(padded), k))
        z == leadingZeros(all)
    IN roundToNearestEven(SubSeq(all, z + 1, Len(all)),
                          x.exp + LimbBits - z, FALSE)

\* the natural number a bit string spells
RECURSIVE valueOf(_)
valueOf(bits) ==
    IF bits = <<>> THEN 0
    ELSE 2 * valueOf(SubSeq(bits, 1, Len(bits) - 1)) + bits[Len(bits)]

\* Math.round of a positive double below 256: the nearest integer, a tie
\* going up
mathRound(x) ==
    IF x.exp < 0 THEN 0
    ELSE valueOf(SubSeq(x.bits, 1, x.exp)) + x.bits[x.exp + 1]

----------------------------------------------------------------------------
(* TaskModel *)

\* parseTags without the removal of duplicates
parseTags_noDedup(tagsString) ==
    IF tagsString = EmptyString THEN <<>>
    ELSE LET pieces == split(tagsString)
             hashed == SelectSeq(pieces, startsWithHash)
         IN [i \in 1..Len(hashed) |-> toLowerCase(hashed[i])]

\* TaskModel.parseTags
parseTags(tagsString) ==
    IF tagsString = EmptyString THEN <<>>
    ELSE LET pieces == split(tagsString)
             hashed == SelectSeq(pieces, startsWithHash)
             lowered == [i \in 1..Len(hashed) |-> toLowerCase(hashed[i])]
         IN firstOccurrences(lowered, 1)

\* the day difference both calculatePriority and getDueDateStatus compute
diffDaysOf(dueDate, today) ==
    LET diffTime == numSub(dateGetTime(dueDate), Num(today))
    IN IF diffTime.nan THEN NaN ELSE Num(ceilDiv(diffTime.v, TicksPerDay))

\* calculatePriority with the bound of 'high' made strict
calculatePriority_strict(dueDate, today) ==
    IF ~dateTruthy(dueDate) THEN "low"
    ELSE LET diffDays == diffDaysOf(dueDate, today)
         IN IF ~diffDays.nan /\ diffDays.v < 0 THEN "overdue"
            ELSE IF ~diffDays.nan /\ diffDays.v < 1 THEN "high"
            ELSE IF ~diffDays.nan /\ diffDays.v <= 3 THEN "medium"
            ELSE "low"

\* TaskModel.calculatePriority, with new Date() made the parameter today
calculatePriority(dueDate, today) ==
    IF ~dateTruthy(dueDate) THEN "low"
    ELSE LET diffDays == diffDaysOf(dueDate, today)
         IN IF ~diffDays.nan /\ diffDays.v < 0 THEN "overdue"
            ELSE IF ~diffDays.nan /\ diffDays.v <= 1 THEN "high"
            ELSE IF ~diffDays.nan /\ diffDays.v <= 3 THEN "medium"
            ELSE "low"

\* Math.abs on whole numbers
abs(n) == IF n < 0 THEN -n ELSE n

\* what getDueDateStatus returns: the CSS class and the text, the text as the
\* pieces its template literal joins
Status(class, text) == [class |-> class, text |-> text]

\* getDueDateStatus counting a task due today as overdue
getDueDateStatus_todayOverdue(dueDate, today) ==
    IF ~dateTruthy(dueDate) THEN Status("", <<>>)
    ELSE LET diffDays == diffDaysOf(dueDate, today)
         IN IF ~diffDays.nan /\ diffDays.v <= 0
            THEN Status("overdue",
                        <<"Overdue by ", Num(abs(diffDays.v)), " day",
                          IF abs(diffDays.v) # 1 THEN "s" ELSE "">>)
            ELSE IF ~diffDays.nan /\ diffDays.v = 1
            THEN Status("due-soon", <<"Due tomorrow">>)
            ELSE IF ~diffDays.nan /\ diffDays.v <= 3
            THEN Status("due-soon", <<"Due in ", diffDays, " days">>)
            ELSE Status("", <<"Due ", diffDays, " days">>)

\* TaskModel.getDueDateStatus, with new Date() made the parameter today
getDueDateStatus(dueDate, today) ==
    IF ~dateTruthy(dueDate) THEN Status("", <<>>)
    ELSE LET diffDays == diffDaysOf(dueDate, today)
         IN IF ~diffDays.nan /\ diffDays.v < 0
            THEN Status("overdue",
                        <<"Overdue by ", Num(abs(diffDays.v)), " day",
                          IF abs(diffDays.v) # 1 THEN "s" ELSE "">>)
            ELSE IF ~diffDays.nan /\ diffDays.v = 0
            THEN Status("due-soon", <<"Due today">>)
            ELSE IF ~diffDays.nan /\ diffDays.v = 1
            THEN Status("due-soon", <<"Due tomorrow">>)
            ELSE IF ~diffDays.nan /\ diffDays.v <= 3
            THEN Status("due-soon", <<"Due in ", diffDays, " days">>)
            ELSE Status("", <<"Due ", diffDays, " days">>)

\* TaskModel.generateId: Date.now() in base 36 followed by the digits of
\* Math.random() in base 36
generateId(today, random) == [prefix |-> today, suffix |-> random]

\* createTask storing the text as typed
createTask_noTrim(text, dueDate, tagsInput, today, random) ==
    [id |-> generateId(today, random),
     text |-> text,
     completed |-> FALSE,
     dueDate |-> dueDate,
     tags |-> parseTags(tagsInput),
     createdAt |-> IsoStr(today),
     priority |-> calculatePriority(dueDate, today)]

\* TaskModel.createTask
createTask(text, dueDate, tagsInput, today, random) ==
    [id |-> generateId(today, random),
     text |-> trim(text),
     completed |-> FALSE,
     dueDate |-> dueDate,
     tags |-> parseTags(tagsInput),
     createdAt |-> IsoStr(today),
     priority |-> calculatePriority(dueDate, today)]

\* a validation that returns at the first error it finds
validateErrors_firstOnly(taskData) ==
    IF taskData.text = EmptyString \/ Len(trim(taskData.text)) = 0
    THEN <<"Task text is required">>
    ELSE IF Len(trim(taskData.text)) > MaxTextLength
    THEN <<"Task text must be less than 500 characters">>
    ELSE IF dateTruthy(taskData.dueDate) /\ dateGetTime(taskData.dueDate).nan
    THEN <<"Invalid due date format">>
    ELSE IF taskData.tags # EmptyString /\ Len(taskData.tags) > MaxTagsLength
    THEN <<"Maximum 10 tags allowed">>
    ELSE <<>>

\* TaskModel.validateTask: the errors array
validateErrors(taskData) ==
    (IF taskData.text = EmptyString \/ Len(trim(taskData.text)) = 0
     THEN <<"Task text is required">> ELSE <<>>)
    \o (IF taskData.text # EmptyString /\ Len(trim(taskData.text)) > MaxTextLength
        THEN <<"Task text must be less than 500 characters">> ELSE <<>>)
    \o (IF dateTruthy(taskData.dueDate) /\ dateGetTime(taskData.dueDate).nan
        THEN <<"Invalid due date format">> ELSE <<>>)
    \o (IF taskData.tags # EmptyString /\ Len(taskData.tags) > MaxTagsLength
        THEN <<"Maximum 10 tags allowed">> ELSE <<>>)

\* validateTask collecting the errors but reporting every input valid
validateTask_alwaysValid(taskData) ==
    [isValid |-> TRUE, errors |-> validateErrors(taskData)]

\* TaskModel.validateTask
validateTask(taskData) ==
    [isValid |-> Len(validateErrors(taskData)) = 0,
     errors |-> validateErrors(taskData)]

\* the due-date comparator putting the tasks without a due date first
compareDueDate_undatedFirst(a, b) ==
    IF ~dateTruthy(a.dueDate) /\ ~dateTruthy(b.dueDate) THEN 0
    ELSE IF ~dateTruthy(a.dueDate) THEN -1
    ELSE IF ~dateTruthy(b.dueDate) THEN 1
    ELSE cmpResult(numSub(dateGetTime(a.dueDate), dateGetTime(b.dueDate)))

compareDueDate(a, b) ==
    IF ~dateTruthy(a.dueDate) /\ ~dateTruthy(b.dueDate) THEN 0
    ELSE IF ~dateTruthy(a.dueDate) THEN 1
    ELSE IF ~dateTruthy(b.dueDate) THEN -1
    ELSE cmpResult(numSub(dateGetTime(a.dueDate), dateGetTime(b.dueDate)))

priorityOrder(p) ==
    CASE p = "overdue" -> 0
      [] p = "high" -> 1
      [] p = "medium" -> 2
      [] p = "low" -> 3

\* the priority comparator with its operands exchanged
comparePriority_reversed(a, b) ==
    priorityOrder(b.priority) - priorityOrder(a.priority)

comparePriority(a, b) == priorityOrder(a.priority) - priorityOrder(b.priority)

\* the creation comparator with its operands exchanged: oldest first
compareCreated_ascending(a, b) ==
    cmpResult(numSub(dateGetTime(a.createdAt), dateGetTime(b.createdAt)))

compareCreated(a, b) ==
    cmpResult(numSub(dateGetTime(b.createdAt), dateGetTime(a.createdAt)))

\* the comparator TaskModel.sortTasks passes to sort for a criterion
compareBy(sortBy, a, b) ==
    CASE sortBy = "dueDate" -> compareDueDate(a, b)
      [] sortBy = "priority" -> comparePriority(a, b)
      [] OTHER -> compareCreated(a, b)

\* Array.prototype.sort: stable, by the sign of the comparator
RECURSIVE insertSorted(_, _, _)
insertSorted(sorted, e, sortBy) ==
    IF sorted = <<>> THEN <<e>>
    ELSE IF compareBy(sortBy, sorted[Len(sorted)], e) > 0
         THEN Append(insertSorted(SubSeq(sorted, 1, Len(sorted) - 1), e, sortBy),
                     sorted[Len(sorted)])
         ELSE Append(sorted, e)

\* TaskModel.sortTasks
RECURSIVE sortTasks(_, _)
sortTasks(ts, sortBy) ==
    IF ts = <<>> THEN <<>>
    ELSE insertSorted(sortTasks(SubSeq(ts, 1, Len(ts) - 1), sortBy),
                      ts[Len(ts)], sortBy)

\* a sortTasks that sorts the array it is given
argumentAfterSort_inPlace(ts, sortBy) == sortTasks(ts, sortBy)

\* the array passed to TaskModel.sortTasks, after the call: sortTasks sorts a
\* copy ([...tasks]), the argument stays as it was
argumentAfterSort(ts, sortBy) == ts

\* Math.round((completed / total) * 100), for 0 <= completed <= total, 0 < total
percentOf(completed, total) ==
    IF completed = 0 THEN 0
    ELSE mathRound(numMul(numDiv(completed, total), 100))

\* TaskModel.getTaskStats, with new Date() made the parameter today
getTaskStats(ts, today) ==
    LET total == Len(ts)
        completed == Len(SelectSeq(ts, LAMBDA t : t.completed))
        overdue ==
            Len(SelectSeq(ts, LAMBDA t :
                    /\ dateTruthy(t.dueDate)
                    /\ ~t.completed
                    /\ numLess(dateGetTime(t.dueDate), Num(today))))
    IN [total |-> total,
        completed |-> completed,
        pending |-> total - completed,
        overdue |-> overdue,
        completionRate |-> IF total > 0 THEN percentOf(completed, total) ELSE 0]

\* TaskModel.filterTasksByTag
filterTasksByTag(ts, tagFilter) ==
    IF tagFilter = EmptyString THEN ts
    ELSE LET carries(task) ==
                 \E i \in 1..Len(task.tags) :
                     toLowerCase(task.tags[i]) = toLowerCase(tagFilter)
         IN SelectSeq(ts, carries)

\* the set of the tags TaskModel.getAllTags returns
allTags(ts) ==
    UNION {{ts[i].tags[j] : j \in 1..Len(ts[i].tags)} : i \in 1..Len(ts)}

----------------------------------------------------------------------------
(* TaskStorage *)

AbsentItem == [kind |-> "absent", items |-> <<>>]

\* a serialization that loses the due date
stringifyTask_noDueDate(t) ==
    <<t.id, t.text, t.completed, NoDate, t.tags, t.createdAt, t.priority>>

\* JSON.stringify of one task: its properties in insertion order
stringifyTask(t) ==
    <<t.id, t.text, t.completed, t.dueDate, t.tags, t.createdAt, t.priority>>

\* JSON.parse of one serialized task
parseTask(j) ==
    [id |-> j[1], text |-> j[2], completed |-> j[3], dueDate |-> j[4],
     tags |-> j[5], createdAt |-> j[6], priority |-> j[7]]

\* JSON.stringify(tasks)
stringify(ts) ==
    [kind |-> "array", items |-> [i \in 1..Len(ts) |-> stringifyTask(ts[i])]]

\* what JSON.parse yields for a text that spells null, a number or an object:
\* a value that is no array (it has no index 1, no length, no array methods)
NonArray(kind) == [i \in {0} |-> kind]

\* TaskStorage.loadTasks: an absent or empty item is falsy and gives []; a text
\* JSON.parse cannot read makes it throw and the catch gives []; any other
\* text gives whatever JSON.parse yields
loadTasks(item) ==
    CASE item.kind \in {"absent", "emptyText"} -> <<>>
      [] item.kind = "malformed" -> <<>>
      [] item.kind = "array" ->
             [i \in 1..Len(item.items) |-> parseTask(item.items[i])]
      [] OTHER -> NonArray(item.kind)

\* saveTasks that never reaches setItem
saveTasks_noWrite(ts, item, works) == item

\* TaskStorage.saveTasks: the item after the call (setItem may throw; the
\* exception is caught and logged)
saveTasks(ts, item, works) == IF works THEN stringify(ts) ELSE item

----------------------------------------------------------------------------
(* Inputs *)

Str_a == <<"a">>

Str_b == <<"b">>

Str_a_padded == <<" ", "a", " ">>

Str_blank == <<" ">>

TagsStr_aAb == <<"#", "a", " ", "#", "A", " ", "b">>

TagsStr_long == <<"#", "w", "o", "r", "k", " ", "#", "h", "o", "m", "e">>

\* the tags input "#a #b ... " naming each of the letters once
RECURSIVE TagsStrOf(_)
TagsStrOf(letters) ==
    IF letters = <<>> THEN <<>>
    ELSE <<"#", Head(letters)>>
         \o (IF Len(letters) > 1 THEN <<" ">> ELSE <<>>)
         \o TagsStrOf(Tail(letters))

\* eleven different tags
TagsStr_eleven ==
    TagsStrOf(<<"a", "b", "c", "d", "e", "f", "g", "h", "i", "j", "k">>)

\* " #B  x #a #b #A ": padded, with a token that is no tag
TagsStr_BabA ==
    <<" ", "#", "B", " ", " ", "x", " ", "#", "a", " ", "#", "b", " ",
      "#", "A", " ">>

\* what may be typed into a tags field
TagInputs ==
    {EmptyString, Str_blank, Str_b, TagsStr_aAb, TagsStr_long, TagsStr_eleven,
     TagsStr_BabA}

FormData(text, dueDate, tagsInput) ==
    [text |-> text, dueDate |-> dueDate, tags |-> tagsInput]

\* what the user may have typed into the task form or the edit form
ValidForms ==
    {FormData(Str_a_padded, DateStr(1), TagsStr_aAb),
     FormData(Str_b, NoDate, EmptyString)}

InvalidForms ==
    {FormData(Str_blank, BadDate, TagsStr_long),
     FormData(Repeat("a", MaxTextLength + 1), DateStr(1), EmptyString)}

Forms == ValidForms \cup InvalidForms

\* a task an earlier session created and completed, as it sits in storage
savedTask ==
    [createTask(Str_b, DateStr(1), TagsStr_aAb, 1, "x") EXCEPT !.completed = TRUE]

InitialItems == {AbsentItem, stringify(<<savedTask>>)}

\* the item under the storage key holding the text kind spells: the empty
\* text, a text that is no JSON, the JSON texts null, 5 and {}
ItemOf(kind) == [kind |-> kind, items |-> <<>>]

\* what the storage key may hold when a session starts, whoever wrote it
StoredItems ==
    InitialItems
    \cup {ItemOf("emptyText"), ItemOf("malformed"), ItemOf("null"),
          ItemOf("number"), ItemOf("object"), stringify(<<>>)}

\* dataset.taskId of an edit modal that shows no task
NoId == [prefix |-> 0, suffix |-> ""]

\* the id of a task that is no longer in the collection
StaleId == [prefix |-> 0, suffix |-> "x"]

SortCriteria == {"created", "dueDate", "priority"}

\* a criterion none of the cases of sortTasks names
UnrecognisedCriterion == "alphabetical"

----------------------------------------------------------------------------
(* TodoApp *)

\* what a handler passed to ui.showNotification: the severity, the text, and
\* what the text is built from (the joined errors, the number of tasks)
Notify(type, message, errors, count) ==
    [type |-> type, message |-> message, errors |-> errors, count |-> count]

\* the handler showed no notification
Silent == Notify("none", "", <<>>, 0)

Intent(op, outcome, saved, shown) ==
    [op |-> op, outcome |-> outcome, saved |-> saved, shown |-> shown]

\* tasks.find(t => t.id === taskId): the index of the first match, 0 if none
findIndex(ts, taskId) ==
    IF \E i \in 1..Len(ts) : ts[i].id = taskId
    THEN CHOOSE i \in 1..Len(ts) :
            ts[i].id = taskId /\ \A j \in 1..(i - 1) : ts[j].id # taskId
    ELSE 0

\* TodoApp.getFilteredTasks
getFilteredTasks(ts, flt, srt) == sortTasks(filterTasksByTag(ts, flt), srt)

\* UIRenderer.updateTagFilter: the option that ends up selected
updateTagFilter(ts, selected) ==
    IF selected \in allTags(ts) THEN selected ELSE EmptyString

\* TodoApp.render
render(ts, flt, srt, selected) ==
    /\ view' = getFilteredTasks(ts, flt, srt)
    /\ tagFilterValue' = updateTagFilter(ts, selected)

\* saveAndRender with a saveTasks that lets the exception of setItem through:
\* render is not reached
saveAndRender_propagates(ts) ==
    /\ blob' = saveTasks(ts, blob, storageWorks)
    /\ IF storageWorks
       THEN render(ts, currentFilter, currentSort, tagFilterValue)
       ELSE UNCHANGED <<view, tagFilterValue>>

\* TodoApp.saveAndRender
saveAndRender(ts) ==
    /\ blob' = saveTasks(ts, blob, storageWorks)
    /\ render(ts, currentFilter, currentSort, tagFilterValue)

Init ==
    /\ blob \in InitialItems
    /\ storageWorks = TRUE
    /\ tasks = loadTasks(blob)
    /\ currentFilter = EmptyString
    /\ currentSort = "created"
    /\ now = StartTick
    /\ tagFilterValue = EmptyString
    /\ view = getFilteredTasks(tasks, currentFilter, currentSort)
    /\ lastIntent = Intent("init", "done", FALSE, Silent)

\* TodoApp.handleTaskSubmit; random is what Math.random() yields
handleTaskSubmit(formData, random) ==
    LET validation == validateTask(formData)
        newTask == createTask(formData.text, formData.dueDate, formData.tags,
                              now, random)
    IN IF ~validation.isValid
       THEN /\ lastIntent' = Intent("submit", "rejected", FALSE,
                                    Notify("error", "", validation.errors, 0))
            /\ UNCHANGED <<tasks, currentFilter, currentSort, blob, storageWorks,
                           now, tagFilterValue, view>>
       ELSE /\ Len(tasks) < MaxTasks
            /\ tasks' = <<newTask>> \o tasks
            /\ saveAndRender(tasks')
            /\ lastIntent' = Intent("submit", "done", TRUE,
                                    Notify("success", "Task added successfully!",
                                           <<>>, 0))
            /\ UNCHANGED <<currentFilter, currentSort, storageWorks, now>>

\* the toggle without the recomputation of the priority
toggleTask_keepsPriority(task, completed, today) ==
    [task EXCEPT !.completed = completed]

\* TodoApp.handleTaskToggle: the two assignments to the task found
toggleTask(task, completed, today) ==
    [task EXCEPT !.completed = completed,
                 !.priority = calculatePriority(task.dueDate, today)]

\* TodoApp.handleTaskToggle
handleTaskToggle(taskId, completed) ==
    LET i == findIndex(tasks, taskId)
    IN IF i # 0
       THEN /\ tasks' = [tasks EXCEPT ![i] = toggleTask(tasks[i], completed, now)]
            /\ saveAndRender(tasks')
            /\ lastIntent' = Intent("toggle", "done", TRUE,
                                    Notify("success",
                                           IF completed THEN "Task completed!"
                                           ELSE "Task marked as pending", <<>>, 0))
            /\ UNCHANGED <<currentFilter, currentSort, storageWorks, now>>
       ELSE /\ lastIntent' = Intent("toggle", "notFound", FALSE, Silent)
            /\ UNCHANGED <<tasks, currentFilter, currentSort, blob, storageWorks,
                           now, tagFilterValue, view>>

\* the edit that rebuilds the task and so loses its completed flag
updateTask_resetsCompleted(task, formData, today) ==
    [task EXCEPT !.text = trim(formData.text),
                 !.dueDate = formData.dueDate,
                 !.tags = parseTags(formData.tags),
                 !.priority = calculatePriority(formData.dueDate, today),
                 !.completed = FALSE]

\* the edit that computes the priority before it stores the new due date
updateTask_oldDueDate(task, formData, today) ==
    [task EXCEPT !.text = trim(formData.text),
                 !.dueDate = formData.dueDate,
                 !.tags = parseTags(formData.tags),
                 !.priority = calculatePriority(task.dueDate, today)]

\* the edit that stores the text as typed
updateTask_noTrim(task, formData, today) ==
    [task EXCEPT !.text = formData.text,
                 !.dueDate = formData.dueDate,
                 !.tags = parseTags(formData.tags),
                 !.priority = calculatePriority(formData.dueDate, today)]

\* TodoApp.handleEditSubmit: the four assignments to the task found
updateTask(task, formData, today) ==
    [task EXCEPT !.text = trim(formData.text),
                 !.dueDate = formData.dueDate,
                 !.tags = parseTags(formData.tags),
                 !.priority = calculatePriority(formData.dueDate, today)]

\* TodoApp.handleEditSubmit; modalTaskId is editModal.dataset.taskId, the id
\* UIRenderer.showEditModal stored when TodoApp.handleTaskEdit opened the modal
handleEditSubmit(modalTaskId, formData) ==
    LET i == findIndex(tasks, modalTaskId)
        validation == validateTask(formData)
    IN IF i = 0
       THEN /\ lastIntent' = Intent("editSubmit", "notFound", FALSE, Silent)
            /\ UNCHANGED <<tasks, currentFilter, currentSort, blob, storageWorks,
                           now, tagFilterValue, view>>
       ELSE IF ~validation.isValid
       THEN /\ lastIntent' = Intent("editSubmit", "rejected", FALSE,
                                    Notify("error", "", validation.errors, 0))
            /\ UNCHANGED <<tasks, currentFilter, currentSort, blob, storageWorks,
                           now, tagFilterValue, view>>
       ELSE /\ tasks' = [tasks EXCEPT ![i] = updateTask(tasks[i], formData, now)]
            /\ saveAndRender(tasks')
            /\ lastIntent' = Intent("editSubmit", "done", TRUE,
                                    Notify("success", "Task updated successfully!",
                                           <<>>, 0))
            /\ UNCHANGED <<currentFilter, currentSort, storageWorks, now>>

\* the delete with the comparison inverted
withoutTask_keepsOnlyMatch(ts, taskId) == SelectSeq(ts, LAMBDA t : t.id = taskId)

\* TodoApp.handleTaskDelete: tasks.filter(t => t.id !== taskId)
withoutTask(ts, taskId) == SelectSeq(ts, LAMBDA t : t.id # taskId)

\* TodoApp.handleTaskDelete; confirmed is the answer of the confirm dialog
handleTaskDelete(taskId, confirmed) ==
    IF confirmed
    THEN /\ tasks' = withoutTask(tasks, taskId)
         /\ saveAndRender(tasks')
         /\ lastIntent' =
                Intent("delete",
                       IF findIndex(tasks, taskId) # 0 THEN "done" ELSE "notFound",
                       TRUE,
                       Notify("success", "Task deleted successfully!", <<>>, 0))
         /\ UNCHANGED <<currentFilter, currentSort, storageWorks, now>>
    ELSE /\ lastIntent' = Intent("delete", "declined", FALSE, Silent)
         /\ UNCHANGED <<tasks, currentFilter, currentSort, blob, storageWorks, now,
                        tagFilterValue, view>>

\* the clear with the negation dropped
withoutCompleted_keepsCompleted(ts) == SelectSeq(ts, LAMBDA t : t.completed)

\* TodoApp.handleClearCompleted: tasks.filter(t => !t.completed)
withoutCompleted(ts) == SelectSeq(ts, LAMBDA t : ~t.completed)

\* TodoApp.handleClearCompleted; confirmed is the answer of the confirm dialog
handleClearCompleted(confirmed) ==
    LET completedCount == Len(SelectSeq(tasks, LAMBDA t : t.completed))
    IN IF completedCount = 0
       THEN /\ lastIntent' = Intent("clearCompleted", "nothingToClear", FALSE,
                                    Notify("warning", "No completed tasks to clear",
                                           <<>>, 0))
            /\ UNCHANGED <<tasks, currentFilter, currentSort, blob, storageWorks,
                           now, tagFilterValue, view>>
       ELSE IF confirmed
       THEN /\ tasks' = withoutCompleted(tasks)
            /\ saveAndRender(tasks')
            /\ lastIntent' = Intent("clearCompleted", "done", TRUE,
                                    Notify("success", "completed tasks cleared!",
                                           <<>>, completedCount))
            /\ UNCHANGED <<currentFilter, currentSort, storageWorks, now>>
       ELSE /\ lastIntent' = Intent("clearCompleted", "declined", FALSE, Silent)
            /\ UNCHANGED <<tasks, currentFilter, currentSort, blob, storageWorks,
                           now, tagFilterValue, view>>

\* TodoApp.handleTagFilterChange; value is the option the user selected
handleTagFilterChange(value) ==
    /\ value \in allTags(tasks) \cup {EmptyString}
    /\ currentFilter' = value
    /\ render(tasks, currentFilter', currentSort, value)
    /\ lastIntent' = Intent("changeFilter", "done", FALSE, Silent)
    /\ UNCHANGED <<tasks, currentSort, blob, storageWorks, now>>

\* a sort change that persists the collection as the mutating intents do
handleSortChange_saves(value) ==
    /\ currentSort' = value
    /\ blob' = saveTasks(tasks, blob, storageWorks)
    /\ render(tasks, currentFilter, currentSort', tagFilterValue)
    /\ lastIntent' = Intent("changeSort", "done", TRUE, Silent)
    /\ UNCHANGED <<tasks, currentFilter, storageWorks, now>>

\* TodoApp.handleSortChange; value is the option the user selected
handleSortChange(value) ==
    /\ currentSort' = value
    /\ render(tasks, currentFilter, currentSort', tagFilterValue)
    /\ lastIntent' = Intent("changeSort", "done", FALSE, Silent)
    /\ UNCHANGED <<tasks, currentFilter, blob, storageWorks, now>>

\* the wall clock advances
Tick ==
    /\ now < StartTick + MaxElapsed
    /\ now' = now + 1
    /\ UNCHANGED <<tasks, currentFilter, currentSort, blob, storageWorks,
                   tagFilterValue, view, lastIntent>>

\* localStorage stops accepting writes (the quota is reached): from now on
\* setItem throws
StorageFails ==
    /\ storageWorks
    /\ storageWorks' = FALSE
    /\ UNCHANGED <<tasks, currentFilter, currentSort, blob, now, tagFilterValue,
                   view, lastIntent>>

\* the ids an intent may carry: those of the tasks on screen, and a stale one
IntentIds == {tasks[i].id : i \in 1..Len(tasks)} \cup {StaleId}

Submit == \E formData \in Forms, random \in RandomSuffixes :
              handleTaskSubmit(formData, random)

Toggle == \E taskId \in IntentIds, completed \in BOOLEAN :
              handleTaskToggle(taskId, completed)

EditSubmit == \E modalTaskId \in IntentIds \cup {NoId}, formData \in Forms :
                  handleEditSubmit(modalTaskId, formData)

Delete == \E taskId \in IntentIds, confirmed \in BOOLEAN :
              handleTaskDelete(taskId, confirmed)

ClearCompleted == \E confirmed \in BOOLEAN : handleClearCompleted(confirmed)

ChangeFilter == \E value \in allTags(tasks) \cup {EmptyString} :
                    handleTagFilterChange(value)

ChangeSort == \E value \in SortCriteria : handleSortChange(value)

\* the intents that change the collection, with every form; the view
\* parameters stay as they start
Next ==
    \/ Submit
    \/ Toggle
    \/ EditSubmit
    \/ Delete
    \/ ClearCompleted
    \/ Tick

Spec == Init /\ [][Next]_vars

\* every intent, the changes of filter and sort included, with the valid forms
SubmitView == \E formData \in ValidForms, random \in RandomSuffixes :
                  handleTaskSubmit(formData, random)

EditSubmitView == \E modalTaskId \in IntentIds, formData \in ValidForms :
                      handleEditSubmit(modalTaskId, formData)

NextView ==
    \/ SubmitView
    \/ Toggle
    \/ EditSubmitView
    \/ Delete
    \/ ClearCompleted
    \/ ChangeFilter
    \/ ChangeSort
    \/ Tick

SpecView == Init /\ [][NextView]_vars

\* the same program with a storage whose writes may fail; the forms are one
\* valid and one invalid input, the view parameters and the clock stay as
\* they start
FailForms ==
    {FormData(Str_a_padded, DateStr(1), TagsStr_aAb),
     FormData(Str_blank, BadDate, TagsStr_long)}

SubmitFail == \E formData \in FailForms, random \in RandomSuffixes :
                  handleTaskSubmit(formData, random)

EditSubmitFail == \E modalTaskId \in IntentIds, formData \in FailForms :
                      handleEditSubmit(modalTaskId, formData)

NextFail ==
    \/ SubmitFail
    \/ Toggle
    \/ EditSubmitFail
    \/ Delete
    \/ ClearCompleted
    \/ StorageFails

SpecFail == Init /\ [][NextFail]_vars

\* the inputs that exercise the limits of validateTask: a short text with a
\* tags input of two tags in eleven characters, a blank text with an
\* unparseable date and that tags input, a text one character too long with an
\* unparseable date, a padded text of exactly the maximal length, a plain one
Str_max_padded == <<" ">> \o Repeat("a", MaxTextLength)

ValidateForms ==
    {FormData(Str_a, DateStr(1), TagsStr_long),
     FormData(Str_blank, BadDate, TagsStr_long),
     FormData(Repeat("a", MaxTextLength + 1), BadDate, EmptyString),
     FormData(Str_max_padded, NoDate, TagsStr_aAb),
     FormData(Str_a_padded, DateStr(1), EmptyString)}

SubmitValidate == \E formData \in ValidateForms, random \in RandomSuffixes :
                      handleTaskSubmit(formData, random)

EditSubmitValidate == \E modalTaskId \in IntentIds, formData \in ValidateForms :
                          handleEditSubmit(modalTaskId, formData)

NextValidate ==
    \/ SubmitValidate
    \/ Toggle
    \/ EditSubmitValidate
    \/ Delete
    \/ ClearCompleted

SpecValidate == Init /\ [][NextValidate]_vars

\* the value is an array
isArray(v) == 0 \notin DOMAIN v

\* a session started on whatever the storage key holds.  TodoApp.init assigns
\* what loadTasks returns and calls render, whose sortTasks spreads the
\* collection: a value that is not iterable makes init throw there, after the
\* listeners were added and before anything was rendered
InitLoad ==
    /\ blob \in StoredItems
    /\ storageWorks = TRUE
    /\ tasks = loadTasks(blob)
    /\ currentFilter = EmptyString
    /\ currentSort = "created"
    /\ now = StartTick
    /\ tagFilterValue = EmptyString
    /\ view = IF isArray(tasks)
              THEN getFilteredTasks(tasks, currentFilter, currentSort)
              ELSE <<>>
    /\ lastIntent = Intent("init", IF isArray(tasks) THEN "done" ELSE "threw",
                           FALSE, Silent)

\* TodoApp.handleTaskToggle on a collection that is no array: this.tasks.find
\* throws a TypeError and the handler ends there
ToggleThrows ==
    /\ ~isArray(tasks)
    /\ lastIntent' = Intent("toggle", "threw", FALSE, Silent)
    /\ UNCHANGED <<tasks, currentFilter, currentSort, blob, storageWorks, now,
                   tagFilterValue, view>>

NextLoad ==
    \/ isArray(tasks) /\ Next
    \/ ToggleThrows

SpecLoad == InitLoad /\ [][NextLoad]_vars

----------------------------------------------------------------------------
(* TaskModel on its own: its static functions applied to a collection and to  *)
(* inputs of a caller's choosing.  tasks holds the caller's collection, view  *)
(* the array the last call returned (empty when it returned none),            *)
(* lastIntent the last call.                                                  *)

\* tasks as createTask builds them at different instants, two of them
\* completed since, two of them without a due date
SampleTasks ==
    {createTask(Str_a, DateStr(0), EmptyString, 3, "x"),
     createTask(Str_a, DateStr(1), TagsStr_aAb, 1, "x"),
     savedTask,
     createTask(Str_b, NoDate, EmptyString, 2, "x"),
     createTask(Str_a, NoDate, TagsStr_aAb, 3, "y"),
     createTask(Str_b, DateStr(2), EmptyString, 2, "y"),
     createTask(Str_b, DateStr(3), EmptyString, 1, "y"),
     [createTask(Str_a, DateStr(0), EmptyString, 2, "y") EXCEPT !.completed = TRUE]}

\* a collection of forty tasks, twenty-three of them completed
FortyTasks ==
    Repeat(savedTask, 23)
    \o Repeat(createTask(Str_b, NoDate, EmptyString, 2, "x"), 17)

Collections ==
    UNION {[1..n -> SampleTasks] : n \in 0..MaxCollection} \cup {FortyTasks}

DueDates == {NoDate} \cup {DateStr(day) : day \in 0..MaxDueDay}

Call(op, args, result) == [op |-> op, args |-> args, result |-> result]

InitModel ==
    /\ tasks \in Collections
    /\ view = <<>>
    /\ now = StartTick
    /\ lastIntent = Call("none", <<>>, <<>>)
    /\ currentFilter = EmptyString
    /\ currentSort = "created"
    /\ blob = AbsentItem
    /\ storageWorks = TRUE
    /\ tagFilterValue = EmptyString

CallCalculatePriority ==
    \E dueDate \in DueDates :
        /\ lastIntent' = Call("calculatePriority",
                              [dueDate |-> dueDate, today |-> now],
                              calculatePriority(dueDate, now))
        /\ view' = <<>>
        /\ UNCHANGED <<tasks, now, currentFilter, currentSort, blob, storageWorks,
                       tagFilterValue>>

CallSortTasks ==
    \E sortBy \in SortCriteria :
        /\ view' = sortTasks(tasks, sortBy)
        /\ tasks' = argumentAfterSort(tasks, sortBy)
        /\ lastIntent' = Call("sortTasks", [tasks |-> tasks, sortBy |-> sortBy],
                              view')
        /\ UNCHANGED <<now, currentFilter, currentSort, blob, storageWorks,
                       tagFilterValue>>

CallGetTaskStats ==
    /\ lastIntent' = Call("getTaskStats", [tasks |-> tasks, today |-> now],
                          getTaskStats(tasks, now))
    /\ view' = <<>>
    /\ UNCHANGED <<tasks, now, currentFilter, currentSort, blob, storageWorks,
                   tagFilterValue>>

\* the due dates a caller may pass: none, a calendar date, a string Date
\* cannot parse
StatusDueDates == DueDates \cup {BadDate}

CallGetDueDateStatus ==
    \E dueDate \in StatusDueDates :
        /\ lastIntent' = Call("getDueDateStatus",
                              [dueDate |-> dueDate, today |-> now],
                              getDueDateStatus(dueDate, now))
        /\ view' = <<>>
        /\ UNCHANGED <<tasks, now, currentFilter, currentSort, blob, storageWorks,
                       tagFilterValue>>

NextModel ==
    \/ CallCalculatePriority
    \/ CallSortTasks
    \/ CallGetTaskStats
    \/ CallGetDueDateStatus
    \/ Tick

SpecModel == InitModel /\ [][NextModel]_vars

----------------------------------------------------------------------------
(* Claims *)

idsOf(ts) == {ts[i].id : i \in 1..Len(ts)}

\* the step ran the handler of intent op
Ran(op) == lastIntent'.op = op

\* the step ended a handler as a whole: it saved, re-derived the view and
\* reported success
Completed(op) ==
    /\ lastIntent'.op = op
    /\ lastIntent'.saved
    /\ lastIntent'.shown.type = "success"
    /\ loadTasks(blob') = tasks'
    /\ view' = getFilteredTasks(tasks', currentFilter', currentSort')

\* C1: with every storage write succeeding, after init and after every intent
\* the stored item decodes to exactly the in-memory collection.
C1_PersistedEqualsMemory == loadTasks(blob) = tasks

C1_Witness ==
    /\ lastIntent.op = "changeSort"
    /\ currentSort = "priority"
    /\ currentFilter # EmptyString
    /\ Len(tasks) = 2
    /\ tasks[1].completed
    /\ tasks[2].text = Str_a
    /\ tasks[2].id = savedTask.id
    /\ Len(blob.items) = 2
    /\ now > StartTick

\* the step rejected formData: nothing changed and the errors were shown
Rejected(formData) ==
    /\ tasks' = tasks
    /\ blob' = blob
    /\ ~lastIntent'.saved
    /\ lastIntent'.outcome = "rejected"
    /\ lastIntent'.shown = Notify("error", "", validateErrors(formData), 0)

\* C2: a submit or an edit-submit whose input validateTask rejects leaves the
\* collection and the stored item as they were and reports the errors.
C2_RejectedIntentChangesNothing ==
    [][/\ Ran("submit") =>
              \A formData \in Forms, random \in RandomSuffixes :
                  (/\ Len(validateErrors(formData)) > 0
                   /\ handleTaskSubmit(formData, random)) => Rejected(formData)
       /\ Ran("editSubmit") =>
              \A formData \in Forms, taskId \in idsOf(tasks) :
                  (/\ Len(validateErrors(formData)) > 0
                   /\ handleEditSubmit(taskId, formData)) => Rejected(formData)]_vars

C2_Witness ==
    /\ lastIntent.op = "editSubmit"
    /\ lastIntent.outcome = "rejected"
    /\ Len(lastIntent.shown.errors) = 3
    /\ Len(tasks) = 2

\* C3: a submit with valid input puts one new task in front of the unchanged
\* previous collection; the new task is not completed, its text is the trimmed
\* input and its tags are parseTags of the tags input.
C3_SubmitPrependsOneTask ==
    [][\A formData \in Forms, random \in RandomSuffixes :
          (/\ Ran("submit")
           /\ Len(validateErrors(formData)) = 0
           /\ handleTaskSubmit(formData, random)) =>
              /\ Len(tasks') = Len(tasks) + 1
              /\ Tail(tasks') = tasks
              /\ Head(tasks').completed = FALSE
              /\ Head(tasks').text = trim(formData.text)
              /\ Head(tasks').tags = parseTags(formData.tags)]_vars

C3_Witness ==
    /\ lastIntent.op = "submit"
    /\ lastIntent.outcome = "done"
    /\ Len(tasks) = 2
    /\ tasks[1].text = Str_a
    /\ tasks[1].tags = << <<"#", "a">> >>
    /\ ~tasks[1].completed

\* C4: no two tasks of the in-memory collection have the same id.
C4_IdsUnique ==
    \A i, j \in 1..Len(tasks) : i # j => tasks[i].id # tasks[j].id

\* C5: a toggle of a present id sets that task's completed flag to the given
\* value and its priority to calculatePriority of its due date now, changes no
\* other field, no other task, neither order nor length, and is persisted.
C5_ToggleFrame ==
    [][\A taskId \in idsOf(tasks), completed \in BOOLEAN :
          (Ran("toggle") /\ handleTaskToggle(taskId, completed)) =>
              /\ Len(tasks') = Len(tasks)
              /\ \E i \in 1..Len(tasks) :
                    /\ tasks[i].id = taskId
                    /\ tasks'[i].completed = completed
                    /\ tasks'[i].priority = calculatePriority(tasks[i].dueDate, now)
                    /\ tasks'[i].id = tasks[i].id
                    /\ tasks'[i].text = tasks[i].text
                    /\ tasks'[i].dueDate = tasks[i].dueDate
                    /\ tasks'[i].tags = tasks[i].tags
                    /\ tasks'[i].createdAt = tasks[i].createdAt
                    /\ \A j \in 1..Len(tasks) : j # i => tasks'[j] = tasks[j]
              /\ Completed("toggle")]_vars

C5_Witness ==
    /\ lastIntent.op = "toggle"
    /\ lastIntent.outcome = "done"
    /\ Len(tasks) = 2
    /\ tasks[2].completed
    /\ tasks[2].priority = "overdue"
    /\ tasks[2].createdAt = IsoStr(StartTick)

\* C6: a successful edit overwrites text (trimmed input), dueDate, tags
\* (parseTags of the input) and priority of the task with that id, in place:
\* id, createdAt, completed and position stay, every other task and the
\* length are unchanged.
C6_EditFrame ==
    [][\A taskId \in idsOf(tasks), formData \in Forms :
          (/\ Ran("editSubmit")
           /\ Len(validateErrors(formData)) = 0
           /\ handleEditSubmit(taskId, formData)) =>
              /\ Len(tasks') = Len(tasks)
              /\ \E i \in 1..Len(tasks) :
                    /\ tasks[i].id = taskId
                    /\ tasks'[i].text = trim(formData.text)
                    /\ tasks'[i].dueDate = formData.dueDate
                    /\ tasks'[i].tags = parseTags(formData.tags)
                    /\ tasks'[i].id = tasks[i].id
                    /\ tasks'[i].createdAt = tasks[i].createdAt
                    /\ tasks'[i].completed = tasks[i].completed
                    /\ \A j \in 1..Len(tasks) : j # i => tasks'[j] = tasks[j]]_vars

C6_Witness ==
    /\ lastIntent.op = "editSubmit"
    /\ lastIntent.outcome = "done"
    /\ Len(tasks) = 2
    /\ tasks[2].id = savedTask.id
    /\ tasks[2].completed
    /\ tasks[2].text = Str_a
    /\ tasks[2].createdAt = savedTask.createdAt

\* the tasks of ts whose id is not taskId, in their order
others(ts, taskId) == SelectSeq(ts, LAMBDA t : t.id # taskId)

\* C7: a confirmed delete of a present id leaves no task with that id, leaves
\* every other task unchanged and in the same relative order, and is persisted.
C7_DeleteRemovesExactlyThatId ==
    [][\A taskId \in idsOf(tasks) :
          (Ran("delete") /\ handleTaskDelete(taskId, TRUE)) =>
              /\ taskId \notin idsOf(tasks')
              /\ tasks' = others(tasks, taskId)
              /\ Len(tasks') < Len(tasks)
              /\ Completed("delete")]_vars

C7_Witness ==
    /\ lastIntent.op = "delete"
    /\ lastIntent.outcome = "done"
    /\ Len(tasks) = 1
    /\ tasks[1].id = savedTask.id

\* C8: a confirmed clearCompleted leaves exactly the tasks that are not
\* completed, unchanged and in order, and persists them; with no completed
\* task it warns, changes nothing and does not write.
C8_ClearCompleted ==
    [][\A confirmed \in BOOLEAN :
          (Ran("clearCompleted") /\ handleClearCompleted(confirmed)) =>
              IF \E i \in 1..Len(tasks) : tasks[i].completed
              THEN confirmed =>
                      /\ tasks' = SelectSeq(tasks, LAMBDA t : t.completed = FALSE)
                      /\ \A i \in 1..Len(tasks') : ~tasks'[i].completed
                      /\ Completed("clearCompleted")
              ELSE /\ tasks' = tasks
                   /\ blob' = blob
                   /\ ~lastIntent'.saved
                   /\ lastIntent'.shown.type = "warning"]_vars

C8_Witness ==
    /\ lastIntent.op = "clearCompleted"
    /\ lastIntent.outcome = "done"
    /\ lastIntent.shown.count = 1
    /\ Len(tasks) = 1

\* the step was a silent no-op
SilentNoOp ==
    /\ tasks' = tasks
    /\ blob' = blob
    /\ ~lastIntent'.saved
    /\ lastIntent'.shown = Silent

\* C9: a toggle, edit-submit or delete of an id that is not in the collection
\* changes nothing in memory, writes nothing to storage and shows no message.
C9_NotFoundIsSilentNoOp ==
    [][\A taskId \in {StaleId, NoId} :
          taskId \notin idsOf(tasks) =>
              /\ \A completed \in BOOLEAN :
                     (Ran("toggle") /\ handleTaskToggle(taskId, completed))
                         => SilentNoOp
              /\ \A formData \in Forms :
                     (Ran("editSubmit") /\ handleEditSubmit(taskId, formData))
                         => SilentNoOp
              /\ \A confirmed \in BOOLEAN :
                     (Ran("delete") /\ handleTaskDelete(taskId, confirmed))
                         => SilentNoOp]_vars

\* C10: when the storage write of a mutating intent fails, the intent still
\* completes: the stored item stays as it was, the in-memory collection holds
\* the mutated value, the view is re-derived from it and success is reported.
C10_FailedWriteKeepsMemoryChange ==
    [][(~storageWorks /\ lastIntent'.saved) =>
          /\ \A formData \in FailForms, random \in RandomSuffixes :
                 (/\ Ran("submit")
                  /\ Len(validateErrors(formData)) = 0
                  /\ handleTaskSubmit(formData, random)) =>
                     /\ Tail(tasks') = tasks
                     /\ Head(tasks').text = trim(formData.text)
          /\ \A taskId \in idsOf(tasks), completed \in BOOLEAN :
                 (Ran("toggle") /\ handleTaskToggle(taskId, completed)) =>
                     \E i \in 1..Len(tasks) :
                         tasks[i].id = taskId /\ tasks'[i].completed = completed
          /\ \A taskId \in idsOf(tasks), formData \in FailForms :
                 (/\ Ran("editSubmit")
                  /\ Len(validateErrors(formData)) = 0
                  /\ handleEditSubmit(taskId, formData)) =>
                     \E i \in 1..Len(tasks) :
                         tasks[i].id = taskId /\ tasks'[i].text = trim(formData.text)
          /\ \A taskId \in idsOf(tasks) :
                 (Ran("delete") /\ handleTaskDelete(taskId, TRUE)) =>
                     tasks' = others(tasks, taskId)
          /\ (/\ Ran("clearCompleted")
              /\ handleClearCompleted(TRUE)
              /\ \E i \in 1..Len(tasks) : tasks[i].completed) =>
                 \A i \in 1..Len(tasks') : ~tasks'[i].completed
          /\ blob' = blob
          /\ lastIntent'.outcome \in {"done", "notFound"}
          /\ lastIntent'.shown.type = "success"
          /\ view' = getFilteredTasks(tasks', currentFilter', currentSort')]_vars

C10_Witness ==
    /\ ~storageWorks
    /\ lastIntent.op = "toggle"
    /\ lastIntent.outcome = "done"
    /\ Len(tasks) = 2
    /\ tasks[2].completed
    /\ blob = AbsentItem
    /\ view = tasks

\* C11: loadTasks returns the empty collection for every stored item that is
\* not a serialized task sequence, so the session starts with a collection
\* that is a sequence (empty unless the item was a serialized sequence).
C11_LoadAlwaysYieldsSequence ==
    /\ isArray(loadTasks(blob))
    /\ isArray(tasks)
    /\ (lastIntent.op = "init" /\ blob.kind # "array") => tasks = <<>>

Reports(errors, message) == \E k \in 1..Len(errors) : errors[k] = message

\* the validation outcome the claim states for formData: the tag-limit error
\* is reported exactly when the tags input parses to more than ten tags, and
\* an input with valid text, valid date and at most ten parsed tags is accepted
TagLimitByParsedCount(formData) ==
    /\ Reports(lastIntent'.shown.errors, "Maximum 10 tags allowed")
           <=> Len(parseTags(formData.tags)) > 10
    /\ (/\ Len(trim(formData.text)) \in 1..MaxTextLength
        /\ formData.dueDate.kind # "invalid"
        /\ Len(parseTags(formData.tags)) <= 10)
           => lastIntent'.outcome = "done"

\* C13: validateTask reports the tag-limit error exactly when the tags input
\* parses to more than 10 tags; a submit or edit with valid text and at most
\* 10 parsed tags is accepted whatever the length of the raw tags input.
C13_TagLimitCountsParsedTags ==
    [][/\ Ran("submit") =>
              \A formData \in ValidateForms, random \in RandomSuffixes :
                  handleTaskSubmit(formData, random)
                      => TagLimitByParsedCount(formData)
       /\ Ran("editSubmit") =>
              \A formData \in ValidateForms, taskId \in idsOf(tasks) :
                  handleEditSubmit(taskId, formData)
                      => TagLimitByParsedCount(formData)]_vars

\* the messages of validateTask in the order the claim fixes
ErrorOrder ==
    <<"Task text is required",
      "Task text must be less than 500 characters",
      "Invalid due date format",
      "Maximum 10 tags allowed">>

\* the step validated formData and reported every error that applies to its
\* text and its date, in the fixed order, and accepted it exactly when there
\* was no error
ReportsAllErrorsInOrder(formData) ==
    LET errors == lastIntent'.shown.errors
        position(message) == CHOOSE p \in 1..Len(ErrorOrder) : ErrorOrder[p] = message
    IN /\ \A k \in 1..Len(errors) : Reports(ErrorOrder, errors[k])
       /\ \A k, l \in 1..Len(errors) :
              k < l => position(errors[k]) < position(errors[l])
       /\ Reports(errors, ErrorOrder[1]) <=> Len(trim(formData.text)) = 0
       /\ Reports(errors, ErrorOrder[2]) <=> Len(trim(formData.text)) > 500
       /\ Reports(errors, ErrorOrder[3]) <=> formData.dueDate.kind = "invalid"
       /\ lastIntent'.outcome = "rejected" <=> errors # <<>>
       /\ lastIntent'.outcome = "done" <=> errors = <<>>

AllStartWithHash(tags) == \A k \in 1..Len(tags) : startsWithHash(tags[k])

\* no two tags are equal when case is ignored
NoCaseDuplicates(tags) ==
    \A k, l \in 1..Len(tags) :
        k # l => toLowerCase(tags[k]) # toLowerCase(tags[l])

\* the tags are the '#' tokens of the input, each once, lower-cased, in the
\* order in which the input first names them
FirstSeenOrder(tagsInput, tags) ==
    LET tokens == IF tagsInput = EmptyString THEN <<>> ELSE split(tagsInput)
        names(p, tag) == toLowerCase(tokens[p]) = tag
        firstSeen(tag) ==
            CHOOSE p \in 1..Len(tokens) :
                names(p, tag) /\ \A q \in 1..(p - 1) : ~names(q, tag)
    IN /\ \A k \in 1..Len(tags) : \E p \in 1..Len(tokens) : names(p, tags[k])
       /\ \A p \in 1..Len(tokens) :
              startsWithHash(tokens[p])
                  => \E k \in 1..Len(tags) : names(p, tags[k])
       /\ \A k, l \in 1..Len(tags) :
              k < l => firstSeen(tags[k]) < firstSeen(tags[l])

\* tags is a tag sequence as parseTags is to build it from tagsInput
WellFormedTags(tagsInput, tags) ==
    /\ AllStartWithHash(tags)
    /\ NoCaseDuplicates(tags)
    /\ FirstSeenOrder(tagsInput, tags)

\* the step created or edited a task from formData and left it with
\* well-formed tags, at most ten of them
StoresWellFormedTags(formData, i) ==
    /\ WellFormedTags(formData.tags, tasks'[i].tags)
    /\ Len(tasks'[i].tags) <= 10

\* the tasks a submit or an edit stores have well-formed tags, at most ten
SessionTagsWellFormed ==
    /\ Ran("submit") =>
           \A formData \in ValidateForms, random \in RandomSuffixes :
               (handleTaskSubmit(formData, random) /\ lastIntent'.outcome = "done")
                   => StoresWellFormedTags(formData, 1)
    /\ Ran("editSubmit") =>
           \A formData \in ValidateForms, taskId \in idsOf(tasks) :
               (handleEditSubmit(taskId, formData) /\ lastIntent'.outcome = "done")
                   => StoresWellFormedTags(formData, findIndex(tasks, taskId))
    /\ \A i \in 1..Len(tasks') :
           /\ AllStartWithHash(tasks'[i].tags)
           /\ NoCaseDuplicates(tasks'[i].tags)
           /\ Len(tasks'[i].tags) <= 10

\* parseTags builds a well-formed sequence from every input
ParseTagsWellFormed ==
    \A tagsInput \in TagInputs : WellFormedTags(tagsInput, parseTags(tagsInput))

\* parseTags builds at most ten tags from every input
ParseTagsAtMostTen ==
    \A tagsInput \in TagInputs : Len(parseTags(tagsInput)) <= 10

\* C15 as stated: every task a submit or an edit stores has tags that start
\* with '#', are free of case-insensitive duplicates, keep the first-seen
\* order of the input and are at most ten; and parseTags yields such a
\* sequence, at most ten elements included, for every input.
C15_ParseTagsAlwaysAtMostTen ==
    [][/\ SessionTagsWellFormed
       /\ ParseTagsWellFormed
       /\ ParseTagsAtMostTen]_vars

\* C15 amended: the tasks a submit or an edit stores have tags that start with
\* '#', are free of case-insensitive duplicates, keep the first-seen order and
\* are at most ten; parseTags yields for every input a sequence with the first
\* three properties, of any length.
C15_TagsWellFormed ==
    [][SessionTagsWellFormed /\ ParseTagsWellFormed]_vars

C15_Witness ==
    /\ lastIntent.op = "editSubmit"
    /\ lastIntent.outcome = "done"
    /\ Len(tasks) = 2
    /\ tasks[2].tags = << <<"#", "a">> >>
    /\ tasks[2].text = Repeat("a", MaxTextLength)
    /\ Len(parseTags(TagsStr_eleven)) = 11
    /\ parseTags(TagsStr_BabA) = << <<"#", "b">>, <<"#", "a">> >>

\* C16: after any sequence of intents every task of the collection has a text
\* that is not empty, equals its own trim and has at most 500 characters.
C16_TextTrimmedNonEmptyBounded ==
    \A i \in 1..Len(tasks) :
        /\ tasks[i].text # EmptyString
        /\ trim(tasks[i].text) = tasks[i].text
        /\ Len(tasks[i].text) <= 500

C16_Witness ==
    /\ lastIntent.op = "editSubmit"
    /\ lastIntent.outcome = "done"
    /\ Len(tasks) = 2
    /\ tasks[1].text = Str_a
    /\ tasks[1].createdAt = IsoStr(StartTick)
    /\ Len(tasks[2].text) = 500
    /\ tasks[2].id = savedTask.id

\* the step mutated the task now at index i, and only it: its priority is
\* calculatePriority of the due date it has after the step, at the instant of
\* the step, and every other task is as it was
MutatedAt(i, before) ==
    /\ tasks'[i].priority = calculatePriority(tasks'[i].dueDate, now)
    /\ \A j \in 1..Len(tasks') : j # i => tasks'[j] = before[j]
    /\ Len(tasks') = Len(before)

\* C17: the priority a task stores is calculatePriority of its current due
\* date at the instant of its last mutation: a submit, a toggle and an edit
\* leave the task they touch with the priority of its due date after the step
\* at that instant, and no other step changes the priority or the due date of
\* any task.
C17_PriorityOfLastMutation ==
    [][/\ Ran("submit") =>
              \A formData \in Forms, random \in RandomSuffixes :
                  (handleTaskSubmit(formData, random) /\ lastIntent'.outcome = "done")
                      => MutatedAt(1, <<formData>> \o tasks)
       /\ Ran("toggle") =>
              \A taskId \in idsOf(tasks), completed \in BOOLEAN :
                  handleTaskToggle(taskId, completed)
                      => MutatedAt(findIndex(tasks, taskId), tasks)
       /\ Ran("editSubmit") =>
              \A taskId \in idsOf(tasks), formData \in Forms :
                  (handleEditSubmit(taskId, formData) /\ lastIntent'.outcome = "done")
                      => /\ MutatedAt(findIndex(tasks, taskId), tasks)
                         /\ tasks'[findIndex(tasks, taskId)].dueDate = formData.dueDate
       /\ (\/ lastIntent'.op \notin {"submit", "toggle", "editSubmit"}
           \/ lastIntent'.outcome # "done"
           \/ now' # now) =>
              \A i \in 1..Len(tasks') : \E j \in 1..Len(tasks) : tasks'[i] = tasks[j]]_vars

C17_Witness ==
    /\ lastIntent.op = "editSubmit"
    /\ lastIntent.outcome = "done"
    /\ now > StartTick
    /\ Len(tasks) = 2
    /\ tasks[2].id = savedTask.id
    /\ tasks[2].dueDate = NoDate
    /\ tasks[2].priority = "low"
    /\ tasks[1].dueDate = DateStr(1)
    /\ tasks[1].priority = "high"

\* the priority the claim's rule gives a due date at an instant: diffDays is
\* the least whole number of days not below the time from the instant to the
\* due date's midnight
PriorityRule(dueDate, today) ==
    IF dueDate = NoDate THEN "low"
    ELSE LET diffTime == dueDate.v * TicksPerDay - today
             diffDays ==
                 CHOOSE k \in (-(MaxDueDay + 4))..(MaxDueDay + 4) :
                     (k - 1) * TicksPerDay < diffTime /\ diffTime <= k * TicksPerDay
         IN CASE diffDays < 0 -> "overdue"
              [] diffDays \in {0, 1} -> "high"
              [] diffDays \in {2, 3} -> "medium"
              [] OTHER -> "low"

\* the calendar day an instant falls on
dayOf(tick) == tick \div TicksPerDay

\* C18: calculatePriority returns low without a due date and otherwise
\* overdue, high, medium or low as diffDays is below 0, 0 or 1, 2 or 3, or at
\* least 4; a task due today or tomorrow is high, one due yesterday or
\* earlier is overdue.
C18_PriorityThresholds ==
    lastIntent.op = "calculatePriority" =>
        LET dueDate == lastIntent.args.dueDate
            today == lastIntent.args.today
        IN /\ lastIntent.result = PriorityRule(dueDate, today)
           /\ (dueDate # NoDate /\ dueDate.v \in {dayOf(today), dayOf(today) + 1})
                  => lastIntent.result = "high"
           /\ (dueDate # NoDate /\ dueDate.v < dayOf(today))
                  => lastIntent.result = "overdue"

C18_Witness ==
    /\ lastIntent.op = "calculatePriority"
    /\ lastIntent.args.today = StartTick + 1
    /\ lastIntent.args.dueDate = DateStr(dayOf(StartTick + 1) + 1)
    /\ lastIntent.result = "high"

\* the number of places at which the sequence holds x
countOf(seq, x) == Cardinality({i \in 1..Len(seq) : seq[i] = x})

\* C19: for every collection and criterion sortTasks returns a permutation of
\* its input, leaves the input itself as it was, and sorting its result again
\* by the same criterion changes nothing.
C19_SortPermutesAndIsIdempotent ==
    lastIntent.op = "sortTasks" =>
        LET input == lastIntent.args.tasks
            sortBy == lastIntent.args.sortBy
        IN /\ Len(view) = Len(input)
           /\ \A i \in 1..Len(input) :
                  countOf(view, input[i]) = countOf(input, input[i])
           /\ tasks = input
           /\ sortTasks(view, sortBy) = view

C19_Witness ==
    /\ lastIntent.op = "sortTasks"
    /\ lastIntent.args.sortBy = "dueDate"
    /\ Len(view) = 3
    /\ view # tasks
    /\ view[1] = tasks[3]
    /\ tasks[1].dueDate = NoDate
    /\ tasks[2].dueDate = tasks[3].dueDate

\* the whole number nearest to 100 * completed / total, a tie going up
RoundedPercent(completed, total) ==
    CHOOSE r \in 0..100 :
        /\ (2 * r - 1) * total <= 200 * completed
        /\ 200 * completed < (2 * r + 1) * total

\* C20: getTaskStats returns total, completed, pending = total - completed,
\* overdue = the uncompleted tasks whose due date is strictly before now, and
\* completionRate = round(100 * completed / total), 0 for no task; so
\* completed + pending = total and the rate is between 0 and 100.
C20_StatsAsStated ==
    lastIntent.op = "getTaskStats" =>
        LET ts == lastIntent.args.tasks
            today == lastIntent.args.today
            stats == lastIntent.result
            completed == Cardinality({i \in 1..Len(ts) : ts[i].completed})
            overdue ==
                Cardinality({i \in 1..Len(ts) :
                    /\ ts[i].dueDate.kind = "date"
                    /\ ts[i].dueDate.v * TicksPerDay < today
                    /\ ~ts[i].completed})
        IN /\ stats.total = Len(ts)
           /\ stats.completed = completed
           /\ stats.pending = Len(ts) - completed
           /\ stats.overdue = overdue
           /\ stats.completionRate =
                  IF Len(ts) = 0 THEN 0 ELSE RoundedPercent(completed, Len(ts))
           /\ stats.completed + stats.pending = stats.total
           /\ stats.completionRate \in 0..100

\* the step changed view parameters only: the collection is as it was, in
\* content and order, nothing was written to storage, and the view handed to
\* the presentation is the one derived from the unchanged collection
ViewParametersOnly ==
    /\ tasks' = tasks
    /\ blob' = blob
    /\ ~lastIntent'.saved
    /\ view' = getFilteredTasks(tasks, currentFilter', currentSort')
    /\ argumentAfterSort(tasks, currentSort') = tasks

\* C21: a change of the tag filter or of the sort criterion, and the
\* derivation of the view it triggers, leaves the in-memory collection
\* unchanged in content and order and writes nothing to storage.
C21_ViewChangesLeaveCollectionAndStorage ==
    [][/\ Ran("changeFilter") =>
              \A value \in allTags(tasks) \cup {EmptyString} :
                  handleTagFilterChange(value)
                      => (ViewParametersOnly /\ currentSort' = currentSort)
       /\ Ran("changeSort") =>
              \A value \in SortCriteria :
                  handleSortChange(value)
                      => (ViewParametersOnly /\ currentFilter' = currentFilter)]_vars

C21_Witness ==
    /\ lastIntent.op = "changeSort"
    /\ currentSort = "dueDate"
    /\ currentFilter = EmptyString
    /\ Len(tasks) = 2
    /\ view # tasks
    /\ Len(view) = 2
    /\ blob = stringify(tasks)

\* the priority and the status agree on the boundaries of the day difference:
\* both are overdue exactly when the due date's midnight is a whole day or
\* more before the instant (diffDays < 0), both are in the urgent tier exactly
\* when it is less than a day before and at most a day after it (diffDays 0
\* or 1)
BoundariesAgree(dueDate, today, priority, status) ==
    LET diffTime == dueDate.v * TicksPerDay - today
        dated == dueDate.kind = "date"
    IN /\ priority = "overdue" <=> status.class = "overdue"
       /\ priority = "overdue" <=> (dated /\ diffTime <= -TicksPerDay)
       /\ priority = "high"
              <=> status.text \in {<<"Due today">>, <<"Due tomorrow">>}
       /\ priority = "high"
              <=> (dated /\ -TicksPerDay < diffTime /\ diffTime <= TicksPerDay)
       /\ dueDate = NoDate => (priority = "low" /\ status = Status("", <<>>))

\* C22: for every due date and every instant, calculatePriority and
\* getDueDateStatus agree on the boundaries of the day difference: the priority
\* is overdue exactly when the status class is overdue, high exactly when the
\* status text is 'Due today' or 'Due tomorrow', and without a due date the
\* priority is low and the status empty.
C22_PriorityAndStatusAgree ==
    /\ lastIntent.op = "getDueDateStatus" =>
           BoundariesAgree(lastIntent.args.dueDate, lastIntent.args.today,
                           calculatePriority(lastIntent.args.dueDate,
                                             lastIntent.args.today),
                           lastIntent.result)
    /\ lastIntent.op = "calculatePriority" =>
           BoundariesAgree(lastIntent.args.dueDate, lastIntent.args.today,
                           lastIntent.result,
                           getDueDateStatus(lastIntent.args.dueDate,
                                            lastIntent.args.today))

C22_Witness ==
    /\ lastIntent.op = "getDueDateStatus"
    /\ lastIntent.args.today = StartTick
    /\ lastIntent.args.dueDate = DateStr(dayOf(StartTick))
    /\ lastIntent.result = Status("due-soon", <<"Due today">>)
    /\ calculatePriority(lastIntent.args.dueDate, StartTick) = "high"

\* the rank the claim gives a priority
RankOf(priority) ==
    CHOOSE r \in 0..3 : <<"overdue", "high", "medium", "low">>[r + 1] = priority

\* the tasks of a sequence that have the priority, in their order
withPriority(seq, priority) == SelectSeq(seq, LAMBDA t : t.priority = priority)

\* C23: sortTasks by priority returns the tasks in the order of the rank
\* overdue < high < medium < low, the tasks of one priority in the relative
\* order they had in the input.
C23_PrioritySortRankedAndStable ==
    (lastIntent.op = "sortTasks" /\ lastIntent.args.sortBy = "priority") =>
        LET input == lastIntent.args.tasks
        IN /\ Len(view) = Len(input)
           /\ \A k, l \in 1..Len(view) :
                  k < l => RankOf(view[k].priority) <= RankOf(view[l].priority)
           /\ \A priority \in {"overdue", "high", "medium", "low"} :
                  withPriority(view, priority) = withPriority(input, priority)

C23_Witness ==
    /\ lastIntent.op = "sortTasks"
    /\ lastIntent.args.sortBy = "priority"
    /\ Len(tasks) = 3
    /\ tasks[1].priority = "high"
    /\ tasks[2].priority = "high"
    /\ tasks[1] # tasks[2]
    /\ tasks[3].priority = "overdue"
    /\ view = <<tasks[3], tasks[1], tasks[2]>>

\* the tasks of a sequence that have the due date, in their order
withDueDate(seq, dueDate) == SelectSeq(seq, LAMBDA t : t.dueDate = dueDate)

\* C24: sortTasks by dueDate returns every task with a due date before every
\* task without one, the dated tasks in ascending order of their due date, and
\* the tasks without a due date, like the tasks of one due date, in the
\* relative order they had in the input.
C24_DueDateSortDatedFirstAscendingStable ==
    (lastIntent.op = "sortTasks" /\ lastIntent.args.sortBy = "dueDate") =>
        LET input == lastIntent.args.tasks
        IN /\ Len(view) = Len(input)
           /\ \A k, l \in 1..Len(view) :
                  k < l =>
                      /\ view[k].dueDate = NoDate => view[l].dueDate = NoDate
                      /\ (view[k].dueDate # NoDate /\ view[l].dueDate # NoDate)
                             => view[k].dueDate.v <= view[l].dueDate.v
           /\ \A dueDate \in DueDates :
                  withDueDate(view, dueDate) = withDueDate(input, dueDate)

C24_Witness ==
    /\ lastIntent.op = "sortTasks"
    /\ lastIntent.args.sortBy = "dueDate"
    /\ Len(tasks) = 3
    /\ tasks[1].dueDate = NoDate
    /\ tasks[2].dueDate = NoDate
    /\ tasks[1] # tasks[2]
    /\ tasks[3].dueDate = DateStr(2)
    /\ view = <<tasks[3], tasks[1], tasks[2]>>

\* the tasks are listed by descending createdAt, the most recent first
NewestFirst(seq) ==
    \A k, l \in 1..Len(seq) : k < l => seq[k].createdAt.v >= seq[l].createdAt.v

\* sortTasks, by the criterion created and by a criterion it does not
\* recognise, lists every collection by descending createdAt
CreatedSortNewestFirst ==
    \A ts \in Collections :
        /\ NewestFirst(sortTasks(ts, "created"))
        /\ Len(sortTasks(ts, "created")) = Len(ts)
        /\ sortTasks(ts, UnrecognisedCriterion) = sortTasks(ts, "created")

\* the step was a successful submit of formData with no tag filter active and
\* the criterion created: the task it created is the first of the view
NewTaskLeadsView(formData) ==
    /\ Len(view') = Len(tasks) + 1
    /\ view'[1] = tasks'[1]
    /\ view'[1].createdAt = IsoStr(now)
    /\ view'[1].text = trim(formData.text)
    /\ \A k \in 2..Len(view') : \E j \in 1..Len(tasks) : view'[k] = tasks[j]

\* C25: with the criterion created, which is the default and stands in for any
\* unrecognised criterion, the view handed to the presentation lists the tasks
\* by descending createdAt; after a successful submit with no tag filter
\* active the new task is the first element of the view.
C25_CreatedSortNewestFirst ==
    [][/\ CreatedSortNewestFirst
       /\ currentSort' = "created" =>
              /\ NewestFirst(view')
              /\ view' = getFilteredTasks(tasks', currentFilter', "created")
       /\ (Ran("submit") /\ currentSort = "created" /\ currentFilter = EmptyString) =>
              \A formData \in ValidForms, random \in RandomSuffixes :
                  handleTaskSubmit(formData, random)
                      => NewTaskLeadsView(formData)]_vars

C25_Witness ==
    /\ lastIntent.op = "submit"
    /\ lastIntent.outcome = "done"
    /\ currentSort = "created"
    /\ currentFilter = EmptyString
    /\ Len(tasks) = 2
    /\ Len(view) = 2
    /\ view[1].createdAt = IsoStr(now)
    /\ view[1].text = Str_a
    /\ view[2] = savedTask
    /\ \E ts \in Collections :
           /\ Len(ts) = 3
           /\ sortTasks(ts, UnrecognisedCriterion) = <<ts[3], ts[1], ts[2]>>
           /\ ts[3].createdAt.v > ts[1].createdAt.v
           /\ ts[1].createdAt.v > ts[2].createdAt.v

\* C26: after any sequence of intents the tag filter the controller applies is
\* empty or a tag of some task of the collection and equals the value the tag
\* selector shows as selected; a non-empty collection is never rendered as an
\* empty view while the selector shows 'All tags'.
C26_FilterIsLiveAndShown ==
    /\ currentFilter \in allTags(tasks) \cup {EmptyString}
    /\ currentFilter = tagFilterValue
    /\ ~(tasks # <<>> /\ view = <<>> /\ tagFilterValue = EmptyString)

\* C27: for every collection and every instant the overdue count of
\* getTaskStats is the number of not-completed tasks whose due date
\* calculatePriority rates overdue at that instant, which is the number of
\* those whose due-date status class is overdue; a not-completed task due
\* today counts the same for both.
C27_OverdueCountMatchesPriority ==
    lastIntent.op = "getTaskStats" =>
        LET ts == lastIntent.args.tasks
            today == lastIntent.args.today
            open == {i \in 1..Len(ts) : ~ts[i].completed}
        IN /\ lastIntent.result.overdue =
                  Cardinality({i \in open :
                      calculatePriority(ts[i].dueDate, today) = "overdue"})
           /\ lastIntent.result.overdue =
                  Cardinality({i \in open :
                      getDueDateStatus(ts[i].dueDate, today).class = "overdue"})

====
